---------------------------- MODULE Spec2Model ----------------------------
(* PageRank (src/pagerank.py): the transition model, the random-surfer     *)
(* sampler and the fixed-point iteration, as a state machine over one call *)
(* of one of the three functions.  Python floats are modelled as exact     *)
(* rationals [num, den] in lowest terms.                                   *)
EXTENDS Integers, FiniteSets, Sequences, TLC

VARIABLES op, corpus, page, damping_factor, n, pc, result, error,
          first_page, generated_page, result_dict, i,
          current_dict, return_dict

vars == <<op, corpus, page, damping_factor, n, pc, result, error,
          first_page, generated_page, result_dict, i,
          current_dict, return_dict>>

-----------------------------------------------------------------------------
(* Bounds of the model *)

\* largest corpus handed to transition_model and iterate_pagerank
MaxPages == 3
\* largest corpus handed to sample_pagerank
MaxWalkPages == 2
\* largest sample count n handed to sample_pagerank
MaxN == 3

-----------------------------------------------------------------------------
(* Exact rational arithmetic standing for Python's float arithmetic *)

\* Every operation is a function, so that its operands are values.

Abs[x \in Int] == IF x < 0 THEN -x ELSE x

Gcd[a \in Nat, b \in Nat] == IF b = 0 THEN a ELSE Gcd[b, a % b]

\* the rational a / b, b > 0, in lowest terms
Rat[a \in Int, b \in Nat \ {0}] ==
    LET g == Gcd[Abs[a], b] IN [num |-> a \div g, den |-> b \div g]

Rats == [num : Int, den : Nat \ {0}]

Zero == Rat[0, 1]
One == Rat[1, 1]

RatAdd[a \in Rats, b \in Rats] ==
    LET g == Gcd[a.den, b.den]
    IN  Rat[a.num * (b.den \div g) + b.num * (a.den \div g), (a.den \div g) * b.den]

RatNeg[a \in Rats] == [num |-> -a.num, den |-> a.den]

RatSub[a \in Rats, b \in Rats] == RatAdd[a, RatNeg[b]]

RatMul[a \in Rats, b \in Rats] ==
    LET g1 == Gcd[Abs[a.num], b.den]
        g2 == Gcd[Abs[b.num], a.den]
    IN  [num |-> (a.num \div g1) * (b.num \div g2),
         den |-> (a.den \div g2) * (b.den \div g1)]

\* a / k for an integer k > 0 (the callers guard k = 0, Python's ZeroDivisionError)
RatDivInt[a \in Rats, k \in Nat \ {0}] == RatMul[a, Rat[1, k]]

RatAbs[a \in Rats] == [num |-> Abs[a.num], den |-> a.den]

\* a > b; for b = 1/m the test a.num * m > a.den is taken as
\* a.num > a.den \div m, which is the same for integers and cannot overflow
RatGt[a \in Rats, b \in Rats] ==
    IF b.num = 1 THEN a.num > a.den \div b.den
    ELSE a.num * b.den > b.num * a.den

RatGeq[a \in Rats, b \in Rats] == ~RatGt[b, a]

RECURSIVE RatSumUpTo(_, _, _)
RatSumUpTo(f, S, m) ==
    IF m = 0 THEN Zero
    ELSE RatAdd[IF m \in S THEN f[m] ELSE Zero, RatSumUpTo(f, S, m - 1)]

\* the sum of f[k] over the pages k in S (pages are numbered from 1)
RatSum(f, S) ==
    IF S = {} THEN Zero
    ELSE RatSumUpTo(f, S, CHOOSE m \in S : \A k \in S : k <= m)

RECURSIVE IntSum(_, _)
IntSum(f, S) ==
    IF S = {} THEN 0
    ELSE LET k == CHOOSE x \in S : TRUE IN f[k] + IntSum(f, S \ {k})

-----------------------------------------------------------------------------
(* Program constants and values *)

\* DAMPING = 0.85
DAMPING == Rat[17, 20]

\* the convergence threshold 0.001 of iterate_pagerank
Epsilon == Rat[1, 1000]

\* the empty dict {}
EmptyDict == [k \in {} |-> 0]

\* crawl(): every page maps to a set of other pages of the corpus
CorporaOf(N) ==
    LET Pages == 1..N
    IN  {c \in [Pages -> SUBSET Pages] : \A p \in Pages : p \notin c[p]}

Corpora(Max) == UNION {CorporaOf(N) : N \in 1..Max}

EmptyCorpus == [k \in {} |-> {}]

-----------------------------------------------------------------------------
(* transition_model *)

\* `linked_pages is None`: corpus values are sets, never None
IsNone(linked_pages) == FALSE

\* equal_probability of the else branch: (1 - damping_factor) / total_pages
EqualProbability(d, total_pages) == RatDivInt[RatSub[One, d], total_pages]

\* a variant dividing by one more than the number of links
LinkedPagesProbabilityOffByOne(d, linked_pages) ==
    RatDivInt[d, Cardinality(linked_pages) + 1]

\* linked_pages_probability: damping_factor / len(linked_pages)
LinkedPagesProbability(d, linked_pages) == RatDivInt[d, Cardinality(linked_pages)]

\* The outcome of transition_model(c, p, d): the exception it raises, if any,
\* and the dict it returns otherwise.
TransitionModel(c, p, d) ==
    IF p \notin DOMAIN c
    THEN [err |-> "KeyError", dist |-> EmptyDict]
    ELSE LET linked_pages == c[p]
             total_pages == Cardinality(DOMAIN c)
         IN  IF IsNone(linked_pages)
             THEN [err |-> "none",
                   dist |-> [key \in DOMAIN c |-> Rat[1, total_pages]]]
             ELSE IF Cardinality(linked_pages) = 0
             THEN [err |-> "ZeroDivisionError", dist |-> EmptyDict]
             ELSE [err |-> "none",
                   dist |-> [key \in DOMAIN c |->
                               IF key \in linked_pages
                               THEN RatAdd[EqualProbability(d, total_pages),
                                           LinkedPagesProbability(d, linked_pages)]
                               ELSE EqualProbability(d, total_pages)]]

-----------------------------------------------------------------------------
(* sample_pagerank *)

\* a variant that sets the count to 1 on every visit
RecordWithoutIncrement(counts, drawn) ==
    [key \in DOMAIN counts \cup {drawn} |->
        IF key = drawn THEN 1 ELSE counts[key]]

\* lines 105-108: count one more visit of the drawn page
Record(counts, drawn) ==
    IF drawn \in DOMAIN counts
    THEN [counts EXCEPT ![drawn] = @ + 1]
    ELSE [key \in DOMAIN counts \cup {drawn} |->
             IF key = drawn THEN 1 ELSE counts[key]]

\* lines 110-111: the visit counts divided by n
Frequencies(counts, samples) ==
    [key \in DOMAIN counts |-> Rat[counts[key], samples]]

-----------------------------------------------------------------------------
(* iterate_pagerank *)

\* a variant that leaves the dangling pages out
LinksToKeyWithoutDangling(c, key) ==
    [check \in {q \in DOMAIN c : key \in c[q]} |-> Cardinality(c[check])]

\* lines 134-139: the pages whose rank flows into key, each with its divisor
LinksToKey(c, key) ==
    LET total_pages == Cardinality(DOMAIN c)
        sources == {check \in DOMAIN c :
                       key \in c[check] \/ Cardinality(c[check]) = 0}
    IN  [check \in sources |->
            IF Cardinality(c[check]) = 0 THEN total_pages
            ELSE Cardinality(c[check])]

\* lines 140-146: the new rank of key computed from the ranks cur
NewRank(c, d, cur, key) ==
    LET total_pages == Cardinality(DOMAIN c)
        links_to_key == LinksToKey(c, key)
        shares == [link \in DOMAIN links_to_key |->
                      RatDivInt[cur[link], links_to_key[link]]]
        linked_probability == RatSum(shares, DOMAIN links_to_key)
    IN  IF DOMAIN links_to_key # {}
        THEN RatAdd[RatDivInt[RatSub[One, d], total_pages],
                    RatMul[d, linked_probability]]
        ELSE RatDivInt[RatSub[One, d], total_pages]

\* lines 133-146: one pass over the corpus filling return_dict
SweepOf(c, d, cur) == [key \in DOMAIN c |-> NewRank(c, d, cur, key)]

\* line 150: the pages whose new rank is more than 0.001 away from the current one
Changed(ret, cur) ==
    {key_check \in DOMAIN ret :
        RatGt[RatAbs[RatSub[ret[key_check], cur[key_check]]], Epsilon]}

\* lines 148-151: complete_check after the comparison loop, changed being the
\* pages that made it False
CompleteCheck(changed) == changed = {}

\* a variant that never stores a new rank
CommitNothing(ret, cur, changed) == cur

\* lines 149-152: current_dict after the comparison loop
Commit(ret, cur, changed) ==
    [key_check \in DOMAIN cur |->
        IF key_check \in changed THEN ret[key_check] ELSE cur[key_check]]

-----------------------------------------------------------------------------
(* The calls the model makes *)

ValidDamping(d) == RatGt[d, Zero] /\ RatGt[One, d]

\* damping factors handed to transition_model, valid and invalid
TransitionDampings == {DAMPING, Rat[1, 2], Rat[3, 2], Rat[-1, 2]}

\* damping factors handed to iterate_pagerank
IterateDampings == {Rat[1, 10], Rat[1, 2]}

\* a four-page corpus with a dangling page, iterated with d = 12/17
HubCorpus == (1 :> {}) @@ (2 :> {1}) @@ (3 :> {1}) @@ (4 :> {2, 3})

IterateInputs ==
    (Corpora(MaxPages) \X IterateDampings) \cup {<<HubCorpus, Rat[12, 17]>>}

Inputs == <<op, corpus, page, damping_factor, n>>
WalkVars == <<first_page, generated_page, result_dict, i>>
SweepVars == <<current_dict, return_dict>>

\* no function has been called yet
Init ==
    /\ op = "none"
    /\ corpus = EmptyCorpus
    /\ page = 0
    /\ damping_factor = Zero
    /\ n = 0
    /\ pc = "idle"
    /\ result = EmptyDict
    /\ error = "none"
    /\ first_page = 0
    /\ generated_page = 0
    /\ result_dict = EmptyDict
    /\ i = 0
    /\ current_dict = EmptyDict
    /\ return_dict = EmptyDict

\* transition_model(c, p, d), lines 52-78
CallTransitionModel ==
    /\ pc = "idle"
    /\ \E c \in Corpora(MaxPages) \cup {EmptyCorpus}, p \in 1..(MaxPages + 1),
          d \in TransitionDampings :
          LET out == TransitionModel(c, p, d)
          IN  /\ op' = "transition_model"
              /\ corpus' = c
              /\ page' = p
              /\ damping_factor' = d
              /\ error' = out.err
              /\ result' = out.dist
              /\ pc' = IF out.err = "none" THEN "done" ELSE "error"
    /\ UNCHANGED <<n, WalkVars, SweepVars>>

\* sample_pagerank(c, DAMPING, samples), lines 90-96: random.choice of the
\* first page
SampleStart ==
    /\ pc = "idle"
    /\ \E c \in Corpora(MaxWalkPages) \cup {EmptyCorpus}, samples \in 0..MaxN :
          /\ op' = "sample_pagerank"
          /\ corpus' = c
          /\ damping_factor' = DAMPING
          /\ n' = samples
          /\ IF DOMAIN c = {}
             THEN /\ error' = "IndexError"
                  /\ pc' = "error"
                  /\ UNCHANGED <<first_page, generated_page>>
             ELSE /\ first_page' \in DOMAIN c
                  /\ generated_page' = 1
                  /\ pc' = "walk"
                  /\ UNCHANGED error
    /\ UNCHANGED <<page, result, result_dict, i, SweepVars>>

\* sample_pagerank, lines 98-108: one pass of the loop over range(n)
SampleStep ==
    /\ pc = "walk"
    /\ i < n
    /\ LET from == IF i = 0 THEN first_page ELSE generated_page
           out == TransitionModel(corpus, from, damping_factor)
       IN  IF out.err # "none"
           THEN /\ error' = out.err
                /\ pc' = "error"
                /\ UNCHANGED <<generated_page, result_dict, i>>
           ELSE /\ \E drawn \in {key \in DOMAIN out.dist : RatGt[out.dist[key], Zero]} :
                     /\ generated_page' = drawn
                     /\ result_dict' = Record(result_dict, drawn)
                /\ i' = i + 1
                /\ UNCHANGED <<pc, error>>
    /\ UNCHANGED <<Inputs, result, first_page, SweepVars>>

\* sample_pagerank, lines 110-113: the loop is over, return the frequencies
SampleReturn ==
    /\ pc = "walk"
    /\ i >= n
    /\ result' = Frequencies(result_dict, n)
    /\ pc' = "done"
    /\ UNCHANGED <<Inputs, error, WalkVars, SweepVars>>

\* iterate_pagerank(c, d), lines 125-130: every rank starts at 1/total_pages
IterateInit ==
    /\ pc = "idle"
    /\ \E in \in IterateInputs :
          /\ op' = "iterate_pagerank"
          /\ corpus' = in[1]
          /\ damping_factor' = in[2]
          /\ current_dict' = [key \in DOMAIN in[1] |-> Rat[1, Cardinality(DOMAIN in[1])]]
    /\ pc' = "sweep"
    /\ UNCHANGED <<page, n, result, error, WalkVars, return_dict>>

\* iterate_pagerank, lines 133-155: one pass of the while loop
Sweep ==
    /\ pc = "sweep"
    /\ \E ret \in {SweepOf(corpus, damping_factor, current_dict)} :
          \E changed \in {Changed(ret, current_dict)} :
             /\ return_dict' = ret
             /\ current_dict' = Commit(ret, current_dict, changed)
             /\ IF CompleteCheck(changed)
                THEN pc' = "done" /\ result' = ret
                ELSE pc' = "sweep" /\ UNCHANGED result
    /\ UNCHANGED <<Inputs, error, WalkVars>>

Next ==
    \/ CallTransitionModel
    \/ SampleStart
    \/ SampleStep
    \/ SampleReturn
    \/ IterateInit
    \/ Sweep

Spec == Init /\ [][Next]_vars

\* the calls of iterate_pagerank alone
IterateNext ==
    \/ IterateInit
    \/ Sweep

\* the interpreter runs every pass of the while loop that it can
FairSpec == Init /\ [][IterateNext]_vars /\ WF_vars(IterateNext)

-----------------------------------------------------------------------------
(* Properties *)

TotalPages == Cardinality(DOMAIN corpus)

Uniform == [key \in DOMAIN corpus |-> Rat[1, TotalPages]]

\* a call of transition_model with arguments the contract allows
ValidTransitionCall ==
    /\ op = "transition_model"
    /\ page \in DOMAIN corpus
    /\ ValidDamping(damping_factor)

\* |a - b| <= 0.001
WithinEpsilon(a, b) == ~RatGt[RatAbs[RatSub[a, b]], Epsilon]

\* C1: transition_model on a dangling page of a valid graph, with d in (0,1),
\* returns the uniform distribution: one entry per page, each equal to 1/N.
C1_DanglingUniform ==
    (ValidTransitionCall /\ corpus[page] = {})
        => (pc = "done" /\ result = Uniform)

\* C2: transition_model on a page with k >= 1 links returns one entry per page,
\* (1-d)/N + d/k for the linked pages and (1-d)/N for the others; the values
\* are non-negative and their total is exactly 1.
C2_NormalPolicy ==
    (ValidTransitionCall /\ corpus[page] # {})
        => LET k == Cardinality(corpus[page])
               base == RatMul[RatSub[One, damping_factor], Rat[1, TotalPages]]
               extra == RatMul[damping_factor, Rat[1, k]]
           IN  /\ pc = "done"
               /\ DOMAIN result = DOMAIN corpus
               /\ \A key \in DOMAIN corpus :
                     /\ result[key] = IF key \in corpus[page]
                                      THEN RatAdd[base, extra] ELSE base
                     /\ RatGeq[result[key], Zero]
               /\ RatSum(result, DOMAIN result) = One

C2_Witness ==
    /\ ValidTransitionCall
    /\ pc = "done"
    /\ corpus[page] # {}
    /\ Cardinality(corpus[page]) < TotalPages - 1
    /\ damping_factor = DAMPING

\* C3: the ranks of iterate_pagerank sum to 1 at the start of every sweep and
\* in the returned mapping.
C3_SumsToOne ==
    (op = "iterate_pagerank")
        => /\ pc = "sweep" => RatSum(current_dict, DOMAIN current_dict) = One
           /\ pc = "done" => RatSum(result, DOMAIN result) = One

\* C4: the mapping returned by iterate_pagerank is a fixed point within 0.001:
\* one more sweep applied to it moves no page's rank by more than 0.001.
C4_FixedPoint ==
    (op = "iterate_pagerank" /\ pc = "done")
        => \A p \in DOMAIN corpus :
              WithinEpsilon(NewRank(corpus, damping_factor, result, p), result[p])

\* C5: every call of iterate_pagerank reaches a sweep in which no rank moves
\* by more than 0.001, and returns.
C5_Terminates == (op = "iterate_pagerank") ~> (pc = "done")

C5_Witness ==
    /\ op = "iterate_pagerank"
    /\ pc = "done"
    /\ current_dict # Uniform
    /\ \E p \in DOMAIN corpus : corpus[p] = {}

\* C6: the mapping returned by sample_pagerank has every page of the graph as
\* a key, a page never drawn having value 0.
C6_EveryPageKey ==
    (op = "sample_pagerank" /\ pc = "done" /\ n >= 1)
        => /\ DOMAIN result = DOMAIN corpus
           /\ \A key \in DOMAIN corpus \ DOMAIN result_dict : result[key] = Zero

\* C7: when sample_pagerank returns for n >= 1, n draws were made and
\* recorded, every returned value is (times the page was drawn) / n, the
\* values are non-negative and sum to 1, and for n = 1 one page has value 1
\* and no other page a non-zero value.
C7_Frequencies ==
    (op = "sample_pagerank" /\ pc = "done" /\ n >= 1)
        => /\ i = n
           /\ IntSum(result_dict, DOMAIN result_dict) = n
           /\ DOMAIN result = DOMAIN result_dict
           /\ \A key \in DOMAIN result :
                 /\ result[key].num * n = result_dict[key] * result[key].den
                 /\ RatGeq[result[key], Zero]
           /\ RatSum(result, DOMAIN result) = One
           /\ n = 1 => \E key \in DOMAIN corpus :
                          /\ DOMAIN result = {key}
                          /\ result[key] = One

C7_Witness ==
    /\ op = "sample_pagerank"
    /\ pc = "done"
    /\ n = 3
    /\ Cardinality(DOMAIN result_dict) = 2
    /\ \E key \in DOMAIN result_dict : result_dict[key] = 2

\* a call with arguments the contract forbids
InvalidCall ==
    \/ /\ op = "transition_model"
       /\ \/ page \notin DOMAIN corpus
          \/ DOMAIN corpus = {}
          \/ ~ValidDamping(damping_factor)
    \/ /\ op = "sample_pagerank"
       /\ n < 1

\* C8: a call with invalid arguments (unknown page, empty graph, d outside
\* (0,1), n < 1) is rejected with an error and produces no result.
C8_InvalidRejected == InvalidCall => pc # "done"

\* C9: after a sweep that has not converged, the whole snapshot is replaced:
\* the current rank of every page is the new rank computed in that sweep.
C9_SnapshotReplaced ==
    [][(op = "iterate_pagerank" /\ pc = "sweep" /\ pc' = "sweep")
          => current_dict' = return_dict']_vars

\* the pages that link to p
InLinks(p) == {q \in DOMAIN corpus : p \in corpus[q]}

\* the pages without outbound links
Dangling == {q \in DOMAIN corpus : corpus[q] = {}}

\* (1-d)/N + d * (sum of cur[q]/L(q) over q linking to p
\*                + sum of cur[q]/N over dangling q)
Recurrence(cur, p) ==
    LET linked == [q \in InLinks(p) |-> RatMul[cur[q], Rat[1, Cardinality(corpus[q])]]]
        teleport == [q \in Dangling |-> RatMul[cur[q], Rat[1, TotalPages]]]
    IN  RatAdd[RatMul[RatSub[One, damping_factor], Rat[1, TotalPages]],
               RatMul[damping_factor,
                      RatAdd[RatSum(linked, InLinks(p)), RatSum(teleport, Dangling)]]]

\* C10: iterate_pagerank starts every rank at 1/N, and every sweep sets the new
\* rank of every page p to (1-d)/N + d * (sum over q linking to p of
\* current[q]/L(q) + sum over dangling q of current[q]/N), with current the
\* ranks held at the start of the sweep; no divisor is zero.
C10_Recurrence ==
    [][/\ (pc = "idle" /\ op' = "iterate_pagerank") => current_dict' = Uniform'
       /\ (op = "iterate_pagerank" /\ pc = "sweep")
             => \A p \in DOMAIN corpus :
                   /\ return_dict'[p] = Recurrence(current_dict, p)
                   /\ \A q \in DOMAIN LinksToKey(corpus, p) :
                         LinksToKey(corpus, p)[q] > 0]_vars

C10_Witness ==
    /\ op = "iterate_pagerank"
    /\ pc = "sweep"
    /\ return_dict # EmptyDict
    /\ return_dict # Uniform
    /\ Dangling # {}
    /\ \E p \in DOMAIN corpus : InLinks(p) # {}
    /\ \E p \in DOMAIN corpus : InLinks(p) = {}

=============================================================================
